---- MODULE Spec2Model ----
(***************************************************************************)
(* Two scripts of the documentation toolchain, each as a state machine:    *)
(*                                                                         *)
(*   tools/spec-preprocessor.py                                            *)
(*       preprocess_openapi_spec: load, resolve $ref, stub the cycles,     *)
(*       write (specification Spec)                                        *)
(*   exampleSite/tools/update-supported-release-table.py                   *)
(*       main: add a release to a product's support table                  *)
(*       (specification TableSpec)                                         *)
(***************************************************************************)
EXTENDS Integers, Sequences, FiniteSets, TLC

VARIABLES
    pc,               \* position of the preprocessor run
    spec,             \* the parsed input document (yaml.safe_load / json.load)
    processed_spec,   \* result of insert_circular_reference_stubs
    audit,            \* what the walk did (history): flags set during the walk
    error,            \* the exception that ended the run, "" when none
    output_file,      \* the file at output_file_path
    output_before,    \* the file at output_file_path when the run started
    files,            \* static/csv/supported-releases-<product>.csv, per product
    argv,             \* sys.argv[1:] of the last run of the release-table script
    exit_code,        \* exit code of that run, -1 before the first run
    message,          \* what that run printed
    before,           \* `files` when that run started (history)
    initial,          \* `files` before the first run (history)
    runs              \* number of runs of the release-table script so far

vars == <<pc, spec, processed_spec, audit, error, output_file, output_before,
          files, argv, exit_code, message, before, initial, runs>>

preVars == <<pc, spec, processed_spec, audit, error, output_file, output_before>>
tableVars == <<files, argv, exit_code, message, before, initial, runs>>

(***************************************************************************)
(* Bounds of the model.                                                    *)
(***************************************************************************)
\* The interpreter's recursion limit (1000 by default), scaled to the
\* documents of the model: no terminating walk of them gets this deep.
RecursionLimit == 16
\* How many containers a component of the input document nests.
MaxNesting == 2
\* Runs of the release-table script in one behaviour.
MaxRuns == 2
\* Data rows of a release table before the first run.
MaxDataRows == 2

(***************************************************************************)
(* Documents.  A node is a Mapping (ordered key -> node), a Sequence, a    *)
(* Scalar, or a reference pointer {"$ref": "#/p1/p2"}.  Every node has the *)
(* same three fields; `items` is the ordered list of <<key, child>>, the   *)
(* key of a Sequence item being str(index).                                *)
(***************************************************************************)
Scalar(v) == [kind |-> "scalar", items |-> <<>>, val |-> v]
Mapping(items) == [kind |-> "map", items |-> items, val |-> <<>>]
Digits == <<"0", "1", "2", "3">>
IndexKey(i) == Digits[i]
SequenceNode(children) ==
    [kind |-> "seq",
     items |-> [i \in 1..Len(children) |-> <<IndexKey(i), children[i]>>],
     val |-> <<>>]
Ref(ptr) == [kind |-> "ref", items |-> <<>>, val |-> ptr]
\* An exception travelling up the walk.
Raised(name) == [kind |-> "error", items |-> <<>>, val |-> <<name>>]

Keys == {"a", "b"}
\* "#/a", "#/b" and "#/c"; the documents have no key c.
Pointers == {<<"a">>, <<"b">>, <<"c">>}
Leaf == {Scalar(<<"s">>)} \cup {Ref(p) : p \in Pointers}
Box(S) ==
    {Mapping(<< <<k, x>> >>) : k \in Keys, x \in S}
        \cup {SequenceNode(<<x>>) : x \in S}
Pairs(S) ==
    {Mapping(<< <<k[1], x>>, <<k[2], y>> >>) :
        k \in {<<"a", "b">>, <<"b", "a">>}, x \in S, y \in S}
        \cup {SequenceNode(<<x, y>>) : x \in S, y \in S}
RECURSIVE Nested(_)
Nested(n) == IF n = 0 THEN Leaf ELSE Leaf \cup Box(Nested(n - 1))
Components == Nested(MaxNesting)
Uses == Nested(1) \cup Pairs({Scalar(<<"s">>), Ref(<<"a">>)})
Documents ==
    {Mapping(<< <<"a", x>>, <<"b", y>> >>) : x \in Components, y \in Uses}
        \cup {Mapping(<< <<"b", y>>, <<"a", x>> >>) : x \in Components, y \in Uses}

(***************************************************************************)
(* Object identity.  json.load and yaml.safe_load build one object per     *)
(* position of the document, so the identity of an object is its position: *)
(* the list of child indexes from the root.  replace_refs puts a JsonRef   *)
(* proxy object at the position of each reference pointer; the proxy has   *)
(* its own identity and behaves as the object its pointer names.           *)
(***************************************************************************)
RECURSIVE At(_, _)
At(doc, pos) ==
    IF pos = <<>> THEN doc ELSE At(doc.items[Head(pos)][2], Tail(pos))

KeyIndex(n, part) ==
    IF \E i \in 1..Len(n.items) : n.items[i][1] = part
    THEN CHOOSE i \in 1..Len(n.items) : n.items[i][1] = part
    ELSE 0

\* Results of a failed resolution; positions hold naturals only.
Unresolvable == <<-1>>
RefLoop == <<-2>>
IsPos(p) == p \notin {Unresolvable, RefLoop}

\* JsonRef.__subject__: the object a proxy stands for (resolve_pointer from
\* the root, going through proxies on the way and unwrapping a proxy at the
\* end); an object that is no proxy stands for itself.  `seen` are the
\* proxies being resolved: coming back to one of them never ends.
RECURSIVE Follow(_, _, _, _, _)
Follow(doc, cur, ptr, i, seen) ==
    LET n == At(doc, cur) IN
    IF n.kind = "ref"
    THEN IF cur \in seen THEN RefLoop
         ELSE LET t == Follow(doc, <<>>, n.val, 1, seen \cup {cur}) IN
              IF IsPos(t) THEN Follow(doc, t, ptr, i, seen) ELSE t
    ELSE IF i > Len(ptr) THEN cur
    ELSE IF KeyIndex(n, ptr[i]) = 0 THEN Unresolvable
    ELSE Follow(doc, Append(cur, KeyIndex(n, ptr[i])), ptr, i + 1, seen)

Subject(doc, obj) == Follow(doc, obj, <<>>, 1, {})

(***************************************************************************)
(* insert_circular_reference_stubs.  The walk returns                      *)
(*   out      the new object, or Raised(..) when an exception leaves it,   *)
(*   visited  the callee's `visited` dict when it returned,                *)
(* and three history flags, which the code does not compute:               *)
(*   stubbedNonAncestor  a stub replaced an object that is not one of its  *)
(*                       own ancestors on the path,                        *)
(*   misnamed   a stub names another key than the one by which the stubbed *)
(*              ancestor was reached from its parent,                      *)
(*   unrolled   a container was expanded inside its own expansion.         *)
(* The history `h` carries, for the current path, the ancestors by         *)
(* identity with the key each was reached by, and the containers (the      *)
(* objects the ancestors stand for) whose expansion is in progress.        *)
(***************************************************************************)
StubDescription == "Circular reference; see the component mentioned in $ref"
Stub(name) ==
    Mapping(<< <<"$ref", Scalar(<<"#/components/schemas/", name>>)>>,
               <<"description", Scalar(<<StubDescription>>)>> >>)

Result(out, visited, f1, f2, f3) ==
    [out |-> out, visited |-> visited,
     stubbedNonAncestor |-> f1, misnamed |-> f2, unrolled |-> f3]

NoHistory == [reached |-> <<>>, open |-> {}]
Last(path) == IF path = <<>> THEN "" ELSE path[Len(path)]
Enter(h, obj, s, path) ==
    [reached |-> [x \in DOMAIN h.reached \cup {obj} |->
                     IF x = obj THEN Last(path) ELSE h.reached[x]],
     open |-> h.open \cup {s}]

\* id(obj)
ObjId(obj) == obj

\* visited[obj_id] = k
Record(visited, obj_id, k) ==
    [x \in DOMAIN visited \cup {obj_id} |-> IF x = obj_id THEN k ELSE visited[x]]

\* The caller's `visited` after a recursive call that was handed
\* visited.copy(): the callee wrote to its own copy.
\* (Variant: the callee is handed `visited` itself, so the caller sees what
\* the callee recorded.)
AfterCallShared(own, callee) == callee
AfterCall(own, callee) == own

RECURSIVE Walk(_, _, _, _, _, _)
RECURSIVE WalkDict(_, _, _, _, _, _, _, _)
RECURSIVE WalkList(_, _, _, _, _, _, _, _)

\* for k, v in obj.items(): visited[obj_id] = k; new_obj[k] = <call>
\* `i` is the next item, `acc` the result so far (acc.out.items is new_obj).
WalkDict(doc, obj, s, path, h, depth, i, acc) ==
    LET n == At(doc, s) IN
    IF i > Len(n.items) THEN acc
    ELSE LET k == n.items[i][1]
             mine == Record(acc.visited, ObjId(obj), k)
             r == Walk(doc, Append(s, i), Append(path, k), mine,
                       Enter(h, obj, s, path), depth + 1)
         IN  IF r.out.kind = "error" THEN r
             ELSE WalkDict(doc, obj, s, path, h, depth, i + 1,
                      Result(Mapping(Append(acc.out.items, <<k, r.out>>)),
                             AfterCall(mine, r.visited),
                             acc.stubbedNonAncestor \/ r.stubbedNonAncestor,
                             acc.misnamed \/ r.misnamed,
                             acc.unrolled \/ r.unrolled))

\* [<call>(item, path + [str(index)], visited.copy()) for index, item in ...]
WalkList(doc, obj, s, path, h, depth, i, acc) ==
    LET n == At(doc, s) IN
    IF i > Len(n.items) THEN acc
    ELSE LET r == Walk(doc, Append(s, i), Append(path, IndexKey(i)), acc.visited,
                       Enter(h, obj, s, path), depth + 1)
         IN  IF r.out.kind = "error" THEN r
             ELSE WalkList(doc, obj, s, path, h, depth, i + 1,
                      Result(SequenceNode(
                                 [j \in 1..i |-> IF j < i THEN acc.out.items[j][2]
                                                 ELSE r.out]),
                             AfterCall(acc.visited, r.visited),
                             acc.stubbedNonAncestor \/ r.stubbedNonAncestor,
                             acc.misnamed \/ r.misnamed,
                             acc.unrolled \/ r.unrolled))

Walk(doc, obj, path, visited, h, depth) ==
    IF depth > RecursionLimit
    THEN Result(Raised("RecursionError"), visited, FALSE, FALSE, FALSE)
    ELSE IF ObjId(obj) \in DOMAIN visited
    THEN Result(Stub(visited[ObjId(obj)]), visited,
                obj \notin DOMAIN h.reached,
                IF obj \in DOMAIN h.reached
                THEN h.reached[obj] # visited[ObjId(obj)] ELSE FALSE,
                FALSE)
    ELSE LET s == Subject(doc, obj) IN
         IF s = Unresolvable
         THEN Result(Raised("JsonRefError"), visited, FALSE, FALSE, FALSE)
         ELSE IF s = RefLoop
         THEN Result(Raised("RecursionError in jsonref"), visited, FALSE, FALSE, FALSE)
         ELSE LET n == At(doc, s) IN
              IF n.kind = "map"
              THEN WalkDict(doc, obj, s, path, h, depth, 1,
                       Result(Mapping(<<>>), visited, FALSE, FALSE, s \in h.open))
              ELSE IF n.kind = "seq"
              THEN WalkList(doc, obj, s, path, h, depth, 1,
                       Result(SequenceNode(<<>>), visited, FALSE, FALSE, s \in h.open))
              ELSE Result(n, visited, FALSE, FALSE, FALSE)

\* insert_circular_reference_stubs(resolved_spec): path = [], visited = {}
insert_circular_reference_stubs(doc) == Walk(doc, <<>>, <<>>, <<>>, NoHistory, 1)

(***************************************************************************)
(* The reference graph of a resolved document: its objects are the         *)
(* positions that hold no proxy, and an object refers to what its items    *)
(* stand for.                                                              *)
(***************************************************************************)
RECURSIVE Positions(_, _)
Positions(doc, pos) ==
    {pos} \cup UNION {Positions(doc, Append(pos, i)) :
                         i \in 1..Len(At(doc, pos).items)}

Objects(doc) == {p \in Positions(doc, <<>>) : At(doc, p).kind # "ref"}
RefersTo(doc, s) ==
    {t \in {Subject(doc, Append(s, i)) : i \in 1..Len(At(doc, s).items)} : IsPos(t)}

RECURSIVE Closure(_, _, _)
Closure(doc, frontier, seen) ==
    IF frontier \subseteq seen THEN seen
    ELSE Closure(doc, UNION {RefersTo(doc, s) : s \in frontier},
                 seen \cup frontier)

Cyclic(doc) ==
    \E s \in Objects(doc) : s \in Closure(doc, RefersTo(doc, s), {})
Resolvable(doc) ==
    \A p \in Positions(doc, <<>>) : IsPos(Subject(doc, p))
Acyclic(doc) == Resolvable(doc) /\ ~Cyclic(doc)

\* A mapping with a "$ref" key is what the resolver takes for a pointer.
IsPointer(n) ==
    n.kind = "ref" \/ (n.kind = "map" /\ KeyIndex(n, "$ref") # 0)
HasRefPointer(doc) ==
    \E p \in Positions(doc, <<>>) : IsPointer(At(doc, p))

\* The document a loader and the resolver make of a written output: the
\* mapping {"$ref": "#/components/schemas/<name>", ...} is a pointer.
RECURSIVE AsDocument(_)
AsDocument(n) ==
    IF n.kind = "map" /\ KeyIndex(n, "$ref") # 0
    THEN Ref(<<"components", "schemas", n.items[KeyIndex(n, "$ref")][2].val[2]>>)
    ELSE [n EXCEPT !.items =
             [i \in 1..Len(n.items) |-> <<n.items[i][1], AsDocument(n.items[i][2])>>]]

(***************************************************************************)
(* Serialization.  A written file is modelled by the document a reader     *)
(* gets back from it, key order included.  json.dump writes the keys of a  *)
(* dict in the dict's order; yaml.dump is called without sort_keys, whose  *)
(* default sorts the keys of every mapping.                                *)
(***************************************************************************)
KeyOrder == <<"$ref", "0", "1", "2", "3", "a", "b", "description">>
Rank(k) == CHOOSE i \in 1..Len(KeyOrder) : KeyOrder[i] = k
SortedItems(items) ==
    [i \in 1..Len(items) |->
        items[CHOOSE j \in 1..Len(items) :
                 Cardinality({m \in 1..Len(items) :
                                 Rank(items[m][1]) < Rank(items[j][1])}) = i - 1]]

RECURSIVE YamlDump(_)
YamlDump(n) ==
    LET dumped == [i \in 1..Len(n.items) |->
                      <<n.items[i][1], YamlDump(n.items[i][2])>>] IN
    IF n.kind = "map" THEN [n EXCEPT !.items = SortedItems(dumped)]
    ELSE [n EXCEPT !.items = dumped]

NoneValue == Scalar(<<"None">>)
Absent == [state |-> "absent", doc |-> NoneValue]
OldFile == [state |-> "old", doc |-> NoneValue]
\* open(path, 'w') and nothing written
Truncated == [state |-> "empty", doc |-> NoneValue]
Written(format, doc) == [state |-> format, doc |-> doc]

Extensions == {".json", ".JSON", ".yaml", ".yml", ".txt", ""}
\* str.lower
Lower(ext) == IF ext = ".JSON" THEN ".json" ELSE ext

NoFlags == [stubbedNonAncestor |-> FALSE, misnamed |-> FALSE, unrolled |-> FALSE]

(***************************************************************************)
(* preprocess_openapi_spec                                                 *)
(***************************************************************************)
UnsupportedInput == "ValueError: Unsupported file format"
UnsupportedOutput == "ValueError: Unsupported output file format"

TableIdle ==
    /\ files = <<>> /\ before = <<>> /\ initial = <<>>
    /\ argv = <<>> /\ exit_code = -1 /\ message = "" /\ runs = 0

Init ==
    /\ pc = "start"
    /\ spec \in Documents
    /\ processed_spec = NoneValue
    /\ audit = NoFlags
    /\ error = ""
    /\ output_file \in {Absent, OldFile}
    /\ output_before = output_file
    /\ TableIdle

\* (Variant of LoadInput: the output is opened for writing together with
\* the input.)
LoadInputOpeningOutput ==
    /\ pc = "start"
    /\ \E file_extension \in Extensions :
          IF Lower(file_extension) \in {".yml", ".yaml", ".json"}
          THEN pc' = "loaded" /\ error' = error
          ELSE pc' = "failed" /\ error' = UnsupportedInput
    /\ output_file' = Truncated
    /\ UNCHANGED <<spec, processed_spec, audit, output_before, tableVars>>

\* Lines 32-41: open the input and load it by its extension.
LoadInput ==
    /\ pc = "start"
    /\ \E file_extension \in Extensions :
          IF Lower(file_extension) \in {".yml", ".yaml", ".json"}
          THEN pc' = "loaded" /\ error' = error
          ELSE pc' = "failed" /\ error' = UnsupportedInput
    /\ UNCHANGED <<spec, processed_spec, audit, output_file, output_before, tableVars>>

\* Lines 44-47: replace_refs makes the proxies, the walk resolves them.
Flatten ==
    /\ pc = "loaded"
    /\ LET r == insert_circular_reference_stubs(spec) IN
       IF r.out.kind = "error"
       THEN /\ pc' = "failed"
            /\ error' = r.out.val[1]
            /\ UNCHANGED <<processed_spec, audit>>
       ELSE /\ pc' = "processed"
            /\ processed_spec' = r.out
            /\ audit' = [stubbedNonAncestor |-> r.stubbedNonAncestor,
                         misnamed |-> r.misnamed, unrolled |-> r.unrolled]
            /\ error' = error
    /\ UNCHANGED <<spec, output_file, output_before, tableVars>>

\* Lines 50-57: open the output for writing, then dump by its extension.
WriteOutput ==
    /\ pc = "processed"
    /\ \E output_file_extension \in Extensions :
          IF Lower(output_file_extension) = ".json"
          THEN /\ output_file' = Written("json", processed_spec)
               /\ pc' = "done" /\ error' = error
          ELSE IF Lower(output_file_extension) \in {".yml", ".yaml"}
          THEN /\ output_file' = Written("yaml", YamlDump(processed_spec))
               /\ pc' = "done" /\ error' = error
          ELSE /\ output_file' = Truncated
               /\ pc' = "failed" /\ error' = UnsupportedOutput
    /\ UNCHANGED <<spec, processed_spec, audit, output_before, tableVars>>

Next == LoadInput \/ Flatten \/ WriteOutput

Spec == Init /\ [][Next]_vars

(***************************************************************************)
(* Properties of the preprocessor, checked under Spec.                     *)
(***************************************************************************)
Walked == pc \in {"processed", "done"} \/ error = UnsupportedOutput
HasStub(doc) ==
    \E p \in Positions(doc, <<>>) :
        At(doc, p).kind = "map" /\ KeyIndex(At(doc, p), "$ref") # 0
\* Two pointers of the document name the same container of containers: its
\* inner objects are reached twice, on branches that do not overlap.
Diamond(doc) ==
    \E p, q \in Positions(doc, <<>>) :
        /\ p # q
        /\ At(doc, p).kind = "ref" /\ At(doc, q).kind = "ref"
        /\ Subject(doc, p) = Subject(doc, q)
        /\ IsPos(Subject(doc, p))
        /\ \E i \in 1..Len(At(doc, Subject(doc, p)).items) :
              Len(At(doc, Append(Subject(doc, p), i)).items) > 0

\* C1: for every document with a reference cycle, cycles through Sequence
\* nodes only included, the cycle-stub walk terminates: no run ends in the
\* walk exhausting the interpreter's stack.
C1_WalkTerminates == error # "RecursionError"

\* C2: the walk puts a stub only in place of an object that is its own
\* ancestor on the current path, and the output of an acyclic document,
\* diamond reuse included, has no stub.
C2_StubOnlyForOwnAncestor ==
    /\ ~audit.stubbedNonAncestor
    /\ (Walked /\ Acyclic(spec)) => ~HasStub(processed_spec)
C2_DiamondExpanded ==
    /\ pc = "processed"
    /\ Acyclic(spec)
    /\ Diamond(spec)
    /\ ~HasStub(processed_spec)

\* C3: no container of a cycle is expanded inside its own expansion (the
\* cycle is never unrolled), also when the cycle closes through a proxy.
C3_CycleNotUnrolled == ~audit.unrolled

\* C4: a stub names the key by which the stubbed ancestor was reached from
\* its parent.
C4_StubNamesReachedKey == ~audit.misnamed

\* C5: a run that fails leaves the file at the output path as it was before
\* the run, and a run that succeeds leaves a complete output file.
C5_FailedRunLeavesOutput ==
    /\ pc = "failed" => output_file = output_before
    /\ pc = "done" => output_file.state \in {"json", "yaml"}

\* C6: the written output has the keys and items of the walk's result in
\* the same order, in both formats, and the walk's result has those of the
\* input (checked on the documents without pointers, where the two are
\* equal).
C6_OrderPreserved ==
    pc = "done" =>
        /\ output_file.doc = processed_spec
        /\ ~HasRefPointer(spec) => processed_spec = spec

\* C7: for an acyclic document the flattened output has no reference pointer
\* and flattening it again gives the same document.
C7_FlattenIdempotent ==
    (Walked /\ Acyclic(spec)) =>
        /\ ~HasRefPointer(processed_spec)
        /\ insert_circular_reference_stubs(AsDocument(processed_spec)).out
               = processed_spec
C7_FlattenedWithPointers ==
    /\ pc = "processed"
    /\ Acyclic(spec)
    /\ HasRefPointer(spec)
    /\ processed_spec # spec

\* C8: a run that fails on its input (unsupported input extension, or a
\* pointer that resolves to nothing) has not touched the output path.
C8_InputFailureBeforeOutput ==
    (pc = "failed" /\ error \in {UnsupportedInput, "JsonRefError"}) =>
        output_file = output_before
C8_UnresolvablePointerFailed ==
    /\ pc = "failed"
    /\ error = "JsonRefError"
    /\ output_file = Absent

(***************************************************************************)
(* update-supported-release-table.py.  A string is the list of its tokens  *)
(* (a run of digits, a dot, a word, a blank), which is what the script's   *)
(* regular expressions, strip() and upper() tell apart.  A table is the    *)
(* list of rows csv.reader returns, a row the list of its fields; the      *)
(* fields of the model hold no comma, quote or line break, so the rows     *)
(* csv.writer writes are the rows csv.reader reads back.                   *)
(***************************************************************************)
DigitRuns == {"0", "1", "2", "5", "9"}
IsDigits(t) == t \in DigitRuns

\* str.upper, token by token
UpperToken(t) ==
    CASE t = "x" -> "X"
      [] t = "yes" -> "YES"
      [] t = "v" -> "V"
      [] t = "Version" -> "VERSION"
      [] OTHER -> t
Upper(str) == [i \in 1..Len(str) |-> UpperToken(str[i])]

\* str.strip
RECURSIVE Strip(_)
Strip(str) ==
    IF str = <<>> THEN str
    ELSE IF Head(str) = " " THEN Strip(Tail(str))
    ELSE IF str[Len(str)] = " " THEN Strip(SubSeq(str, 1, Len(str) - 1))
    ELSE str

\* re.match(r'^(\d+\.\d+)\.\d+$', version)
MatchesRelease(version) ==
    /\ Len(version) = 5
    /\ IsDigits(version[1]) /\ version[2] = "." /\ IsDigits(version[3])
    /\ version[4] = "." /\ IsDigits(version[5])

\* re.match(r'^\d+\.\d+\.X$', version, re.IGNORECASE)
MatchesSeries(version) ==
    /\ Len(version) = 5
    /\ IsDigits(version[1]) /\ version[2] = "." /\ IsDigits(version[3])
    /\ version[4] = "." /\ version[5] \in {"X", "x"}

\* (Variant: the patch number is kept.)
normalize_versionKeepingPatch(version) == version
normalize_version(version) ==
    IF MatchesRelease(version)
    THEN <<version[1], ".", version[3], ".", "X">>
    ELSE version

valid_products == {"genai", "mldm", "mlde", "mldes", "mlis"}
Missing == << <<"no such file">> >>

\* row[2].strip().upper() == 'YES'
IsYes(row) == Upper(Strip(row[3])) = <<"YES">>

\* (Variant: rows[1:] is scanned top down.)
FlipFirstYes(rows) ==
    IF \E j \in 2..Len(rows) : IsYes(rows[j])
    THEN LET j == CHOOSE j \in 2..Len(rows) :
                      IsYes(rows[j]) /\ \A m \in 2..(j - 1) : ~IsYes(rows[m])
         IN  [rows EXCEPT ![j][3] = <<"NO">>]
    ELSE rows
\* for row in reversed(rows[1:]): if <yes>: row[2] = 'NO'; break
FlipLastYes(rows) ==
    IF \E j \in 2..Len(rows) : IsYes(rows[j])
    THEN LET j == CHOOSE j \in 2..Len(rows) :
                      IsYes(rows[j]) /\ \A m \in (j + 1)..Len(rows) : ~IsYes(rows[m])
         IN  [rows EXCEPT ![j][3] = <<"NO">>]
    ELSE rows

\* rows.insert(1, new_row)
InsertAfterHeader(rows, new_row) ==
    IF rows = <<>> THEN <<new_row>>
    ELSE <<rows[1], new_row>> \o Tail(rows)

\* The tables a product's file may hold before the first run.
Header == << <<"Version">>, <<"Status">>, <<"Support">> >>
Supports == {<<"YES">>, <<"NO">>, <<" ", "yes">>}
OldVersions ==
    << {<<"1", ".", "1", ".", "X">>, <<" ", "1", ".", "1", ".", "x", " ">>},
       {<<"1", ".", "0", ".", "X">>},
       {<<"0", ".", "9", ".", "X">>},
       {<<"0", ".", "5", ".", "X">>} >>
RECURSIVE DataRows(_)
DataRows(n) ==
    IF n = 0 THEN {<<>>}
    ELSE {Append(rows, <<v, <<"GA">>, s>>) :
             rows \in DataRows(n - 1), v \in OldVersions[n], s \in Supports}
InitTables ==
    {<<>>} \cup UNION {{<<Header>> \o rows : rows \in DataRows(n)} : n \in 0..MaxDataRows}

VersionArgs ==
    { <<"1", ".", "1", ".", "5">>, <<"1", ".", "2", ".", "0">>,
      <<"1", ".", "2", ".", "x">>, <<"2", ".", "0", ".", "X">>,
      <<"1", ".", "2">>, <<"v", "1", ".", "2", ".", "0">> }
ProductArgs == valid_products \cup {"docs"}
ArgvSet ==
    {<<p, v>> : p \in ProductArgs, v \in VersionArgs}
        \cup {<<>>, <<"genai">>}

PreprocessorIdle ==
    /\ pc = "idle" /\ spec = NoneValue /\ processed_spec = NoneValue
    /\ audit = NoFlags /\ error = ""
    /\ output_file = Absent /\ output_before = Absent

TableInit ==
    /\ PreprocessorIdle
    /\ \E table \in InitTables, present \in {{"genai"}, {"genai", "mldm"}} :
          files = [p \in valid_products |-> IF p \in present THEN table ELSE Missing]
    /\ before = files
    /\ initial = files
    /\ argv = <<>>
    /\ exit_code = -1
    /\ message = ""
    /\ runs = 0

Exit(code, text) ==
    /\ exit_code' = code
    /\ message' = text
    /\ files' = files

\* One run of main() with arguments args.
main(args) ==
    /\ runs < MaxRuns
    /\ runs' = runs + 1
    /\ argv' = args
    /\ before' = files
    /\ UNCHANGED <<initial, preVars>>
    /\ IF Len(args) # 2 THEN Exit(1, "Usage")
       ELSE LET product == args[1]
                version == normalize_version(Upper(args[2]))
            IN
            IF ~MatchesSeries(version) THEN Exit(1, "Version must be in the format")
            ELSE IF product \notin valid_products THEN Exit(1, "Product must be one of")
            ELSE IF files[product] = Missing THEN Exit(1, "File not found")
            ELSE LET rows == files[product] IN
                 IF \E i \in 1..Len(rows) : Upper(Strip(rows[i][1])) = version
                 THEN Exit(0, "is already on the support table")
                 ELSE /\ files' = [files EXCEPT ![product] =
                             InsertAfterHeader(FlipLastYes(rows),
                                               <<version, <<"GA">>, <<"YES">>>>)]
                      /\ exit_code' = 0
                      /\ message' = "Updated"

TableNext == \E args \in ArgvSet : main(args)

TableSpec == TableInit /\ [][TableNext]_vars

(***************************************************************************)
(* Properties of the release-table script, checked under TableSpec.        *)
(***************************************************************************)
YesCount(rows) == Cardinality({j \in 2..Len(rows) : IsYes(rows[j])})
\* "M.m.X" for an argument "M.m.<patch>", the patch a number or an x
IsRelease(arg) ==
    /\ Len(arg) = 5
    /\ IsDigits(arg[1]) /\ arg[2] = "." /\ IsDigits(arg[3]) /\ arg[4] = "."
    /\ (IsDigits(arg[5]) \/ arg[5] \in {"x", "X"})
SeriesOf(arg) == <<arg[1], ".", arg[3], ".", "X">>

\* C9: from a table with at least one SUPPORT = YES data row, the number of
\* YES rows never changes; an update puts [version, GA, YES] right after the
\* header and turns the bottom-most YES row, and no other, to NO.
C9_YesCountKept ==
    /\ \A p \in valid_products :
          YesCount(initial[p]) >= 1 => YesCount(files[p]) = YesCount(initial[p])
    /\ (message = "Updated" /\ YesCount(before[argv[1]]) >= 1) =>
          LET old == before[argv[1]]
              new == files[argv[1]]
          IN  /\ Len(new) = Len(old) + 1
              /\ new[1] = old[1]
              /\ new[2] = <<SeriesOf(argv[2]), <<"GA">>, <<"YES">>>>
              /\ \E j \in 2..Len(old) :
                    /\ IsYes(old[j])
                    /\ \A m \in (j + 1)..Len(old) : ~IsYes(old[m])
                    /\ new[j + 1] = [old[j] EXCEPT ![3] = <<"NO">>]
                    /\ \A m \in 2..Len(old) : m # j => new[m + 1] = old[m]
              /\ \A q \in valid_products : q # argv[1] => files[q] = before[q]
C9_UpdatedTwice ==
    /\ message = "Updated"
    /\ YesCount(initial[argv[1]]) >= 2
    /\ Len(files[argv[1]]) = Len(initial[argv[1]]) + 2

\* C10: a run whose version, normalized to M.m.X, is already the first
\* column of a row (stripped, upper-cased) exits with code 0 and leaves the
\* table as it was; so does every run that exits with code 1.
C10_RepeatLeavesTable ==
    /\ (runs > 0 /\ exit_code = 1) => files = before
    /\ ( /\ runs > 0
         /\ Len(argv) = 2
         /\ argv[1] \in valid_products
         /\ IsRelease(argv[2])
         /\ before[argv[1]] # Missing
         /\ \E i \in 1..Len(before[argv[1]]) :
               Upper(Strip(before[argv[1]][i][1])) = SeriesOf(argv[2]) )
       => (exit_code = 0 /\ files = before)
C10_SecondRunSameMinor ==
    /\ runs = 2
    /\ exit_code = 0
    /\ message = "is already on the support table"
    /\ files = before
    /\ Len(initial[argv[1]]) >= 2
    /\ Len(files[argv[1]]) = Len(initial[argv[1]]) + 1
    /\ files[argv[1]][2][1] = SeriesOf(argv[2])
    /\ IsDigits(argv[2][5])

====
